---------------------------- MODULE Spec2Model ----------------------------
(***************************************************************************)
(* Verification-payload protocol of the document attestation backend:      *)
(*   services/zk_proof.py      commitment derivation, Schnorr verifier     *)
(*   services/signature.py     HMAC signer                                 *)
(*   services/qr_payload.py    payload codec                               *)
(*   main.py                   document store, build_verification_payload, *)
(*                             upload / verification / zk-verify handlers  *)
(*                                                                         *)
(* Scaling.  TLC has no 256-bit integers, so the curve is the same         *)
(* equation as secp256k1, y^2 = x^3 + 7, over the field F_13, whose group  *)
(* has prime order 7 and cofactor 1 (as secp256k1: order < p < 2^width).   *)
(* A coordinate, a digest and a byte are 4 bits wide; to_bytes(32, "big")  *)
(* becomes one 4-bit byte.  SHA-256 is a family of mixing functions        *)
(* indexed by an initial value (shaIV): for a fixed input every output is  *)
(* produced by some member of the family.  HMAC-SHA256, the checksum hash, *)
(* JSON, base64 and the QR image are symbolic terms <<tag, ...>>, i.e.     *)
(* collision-free functions of their arguments.                            *)
(***************************************************************************)
EXTENDS Integers, Sequences, FiniteSets, TLC

VARIABLES
    shaIV,      \* which member of the SHA-256 family this run uses
    zk,         \* one call of verify_schnorr_proof: its inputs and its outcome
    secret,     \* os.environ DOCUMENT_SIGNING_SECRET, as _load_secret reads it
    sg,         \* one sign_payload / verify_signature exchange
    documents,  \* the list uploads/metadata/documents.json holds
    last,       \* the latest handler call and its response
    before,     \* the handler call before it
    pc,         \* per server process: where its current handler call stands
    loc,        \* per server process: the local variables of that call
    started,    \* handler calls begun so far (SpecConc)
    ingested,   \* ids whose upload_file call has completed (SpecConc)
    written,    \* per id: the fields the latest completed persist wrote
    codec,      \* one encode_payload / decode_payload exchange
    norm        \* one text and what normalize_text made of it

concVars == <<pc, loc, started, ingested, written>>
pureVars == <<codec, norm>>
vars == <<shaIV, zk, secret, sg, documents, last, before, concVars, pureVars>>

---------------------------------------------------------------------------
(* Bounds of the model (not program constants). *)

\* The proof fields rx, ry range over -1 .. 2^CoordBits + MaxOverflow - 1.
MaxOverflow == 1
\* Uploads stop when the store holds MaxDocs records.
MaxDocs == 2
\* datetime.utcnow() takes the values 1 .. MaxTime.
MaxTime == 1
\* Handler calls the server processes of SpecConc take on in all.
MaxRequests == 3
\* The str values of a payload handed to encode_payload have at most
\* MaxStrLen characters.
MaxStrLen == 2
\* The texts handed to normalize_text have 1 .. MaxTextLen characters.
MaxTextLen == 3

---------------------------------------------------------------------------
(* secp256k1, scaled: zk_proof.py CURVE / GENERATOR / ORDER. *)

FieldP == 13
CurveB == 7
ORDER == 7
Gx == 7
Gy == 5
\* Width in bits of rx.to_bytes(32, "big"), of a digest and of one byte.
CoordBits == 4

TwoToWidth == 2 ^ CoordBits

\* ecdsa.ellipticcurve.INFINITY / Point(None, None, None)
INFINITY == [inf |-> TRUE, x |-> 0, y |-> 0]

Pt(x, y) == [inf |-> FALSE, x |-> x, y |-> y]

GENERATOR == Pt(Gx, Gy)

\* CurveFp.contains_point: (y*y - (x*x*x + a*x + b)) % p == 0
contains_point(x, y) == (y * y - (x * x * x + CurveB)) % FieldP = 0

ModInv(a) == CHOOSE b \in 1..(FieldP - 1) : (a * b) % FieldP = 1

\* Point addition (affine result; the library computes in Jacobian
\* coordinates and compares modulo p, which is the same relation).
PointAdd(p1, p2) ==
    IF p1.inf THEN p2
    ELSE IF p2.inf THEN p1
    ELSE IF p1.x % FieldP = p2.x % FieldP /\ (p1.y + p2.y) % FieldP = 0
         THEN INFINITY
    ELSE LET x1 == p1.x % FieldP
             y1 == p1.y % FieldP
             x2 == p2.x % FieldP
             y2 == p2.y % FieldP
             lam == IF x1 = x2
                    THEN (3 * x1 * x1 * ModInv((2 * y1) % FieldP)) % FieldP
                    ELSE ((y2 - y1) * ModInv((x2 - x1) % FieldP)) % FieldP
             x3 == (lam * lam - x1 - x2) % FieldP
             y3 == (lam * (x1 - x3) - y1) % FieldP
         IN  Pt(x3, y3)

RECURSIVE PointMul(_, _)
\* point * scalar, scalar >= 0 (double and add)
PointMul(pt, k) ==
    IF k = 0 \/ pt.inf THEN INFINITY
    ELSE LET half == PointMul(PointAdd(pt, pt), k \div 2)
         IN  IF k % 2 = 1 THEN PointAdd(pt, half) ELSE half

\* left == right on curve points (PointJacobi.__eq__: coordinates modulo p)
PointEq(p1, p2) ==
    IF p1.inf \/ p2.inf THEN p1.inf = p2.inf
    ELSE p1.x % FieldP = p2.x % FieldP /\ p1.y % FieldP = p2.y % FieldP

---------------------------------------------------------------------------
(* Strings and bytes. *)

\* A str is a sequence of characters; utf-8 gives each a one-byte code.
CharCode ==
    [c \in {"I", "i", "-", "1", "2", "9", "!", "x"} |->
        CASE c = "I" -> 9
          [] c = "i" -> 10
          [] c = "-" -> 13
          [] c = "1" -> 1
          [] c = "2" -> 2
          [] c = "9" -> 3
          [] c = "!" -> 14
          [] c = "x" -> 11]

\* str.encode("utf-8")
Utf8(str) == [i \in 1..Len(str) |-> CharCode[str[i]]]

\* A hex string is modelled by the bytes it denotes; NonHexStr is a string
\* bytes.fromhex / int(_, 16) rejects with ValueError.
HexStr(bytes) == <<"hex", bytes>>
NonHexStr == <<"nonhex">>
IsHex(h) == h[1] = "hex"

\* A proof field: a hex literal that int(_, 16) parses to v (v may be
\* negative: int("-5", 16) = -5), a non-hex string, or a missing key.
HexInt(v) == <<"int", v>>
MissingKey == <<"missing">>

RECURSIVE ShaFold(_, _)
ShaFold(h, bytes) ==
    IF bytes = <<>> THEN h
    ELSE ShaFold((5 * h + Head(bytes) + 1) % TwoToWidth, Tail(bytes))

\* int.from_bytes(hashlib.sha256(material).digest(), "big")
Sha256Int(iv, bytes) == ShaFold(iv, bytes)

---------------------------------------------------------------------------
(* services/zk_proof.py *)

ensure_scalar_no_guard(scalar) == scalar % ORDER

\* _ensure_scalar
ensure_scalar(scalar) ==
    IF scalar % ORDER = 0 THEN 1 ELSE scalar % ORDER

\* VerifyingKey.to_string("compressed"): sign byte 02/03 by parity of y, then x
Compressed(pt) == <<2 + (pt.y % 2), pt.x>>

\* commitment_from_hash(hash_hex), hash_hex denoting the integer d
commitment_from_hash(d) ==
    HexStr(Compressed(PointMul(GENERATOR, ensure_scalar(d))))

\* VerifyingKey.from_string(bytes, curve): the point, or INFINITY standing
\* for MalformedPointError.  Compressed is 1 + 1 coordinate bytes,
\* uncompressed 04 + 2 coordinate bytes; any other length is malformed
\* (with one-byte coordinates the raw x||y form has the length of the
\* compressed form and is left out).
from_string(bytes) ==
    IF Len(bytes) = 2 /\ bytes[1] \in {2, 3}
    THEN LET x == bytes[2]
             ys == {y \in 0..(FieldP - 1) :
                      contains_point(x, y) /\ y % 2 = bytes[1] - 2}
         IN  IF x < FieldP /\ ys # {} THEN Pt(x, CHOOSE y \in ys : TRUE)
             ELSE INFINITY
    ELSE IF Len(bytes) = 3 /\ bytes[1] = 4
    THEN IF bytes[2] < FieldP /\ bytes[3] < FieldP
            /\ contains_point(bytes[2], bytes[3])
         THEN Pt(bytes[2], bytes[3]) ELSE INFINITY
    ELSE INFINITY

\* SchnorrProof.from_payload succeeds
PayloadParses(proof) ==
    /\ proof.rx[1] = "int"
    /\ proof.ry[1] = "int"
    /\ proof.s[1] = "int"

\* int.to_bytes(32, "big") raises OverflowError
ToBytesOverflows(v) == v < 0 \/ v >= TwoToWidth

\* SchnorrProof.challenge
challenge(rx, ry, commitment_hex, document_id, context) ==
    Sha256Int(shaIV,
              <<rx>> \o <<ry>> \o commitment_hex[2]
                \o Utf8(document_id) \o Utf8(context)) % ORDER

\* SchnorrProof.to_point
to_point(rx, ry) == Pt(rx, ry)

verify_schnorr_proof_unguarded(commitment_hex, document_id, proof, context) ==
    IF ~IsHex(commitment_hex) THEN "False"
    ELSE IF from_string(commitment_hex[2]).inf THEN "False"
    ELSE IF ~PayloadParses(proof) THEN "False"
    ELSE LET rx == proof.rx[2]
             ry == proof.ry[2]
             s == proof.s[2]
         IN  IF ToBytesOverflows(rx) \/ ToBytesOverflows(ry)
             THEN "OverflowError"
             ELSE IF ~contains_point(rx, ry) THEN "AssertionError"
             ELSE LET e == challenge(rx, ry, commitment_hex, document_id,
                                     context)
                      left == PointMul(GENERATOR, ensure_scalar_no_guard(s))
                      right == PointAdd(to_point(rx, ry),
                                 PointMul(from_string(commitment_hex[2]), e))
                  IN  IF PointEq(left, right) THEN "True" ELSE "False"

\* verify_schnorr_proof: "True" / "False", or the exception that leaves it
verify_schnorr_proof(commitment_hex, document_id, proof, context) ==
    IF ~IsHex(commitment_hex) THEN "False"
    ELSE IF from_string(commitment_hex[2]).inf THEN "False"
    ELSE IF ~PayloadParses(proof) THEN "False"
    ELSE LET rx == proof.rx[2]
             ry == proof.ry[2]
             s == proof.s[2]
         IN  IF ToBytesOverflows(rx) \/ ToBytesOverflows(ry)
             THEN "OverflowError"
             ELSE IF ~contains_point(rx, ry) THEN "AssertionError"
             ELSE LET e == challenge(rx, ry, commitment_hex, document_id,
                                     context)
                      left == PointMul(GENERATOR, ensure_scalar(s))
                      right == PointAdd(to_point(rx, ry),
                                 PointMul(from_string(commitment_hex[2]), e))
                  IN  IF PointEq(left, right) THEN "True" ELSE "False"

\* The honest prover of the Schnorr protocol for the discrete log d and
\* nonce k: R = k*G, e = H(R, commitment, id, context), s = k + e*d mod order.
HonestProof(d, k, commitment_hex, document_id, context) ==
    LET R == PointMul(GENERATOR, k)
        e == challenge(R.x, R.y, commitment_hex, document_id, context)
    IN  [rx |-> HexInt(R.x), ry |-> HexInt(R.y),
         s |-> HexInt((k + e * d) % ORDER)]

---------------------------------------------------------------------------
(* services/signature.py *)

DEFAULT_SECRET == "dev-signing-secret"
\* Values DOCUMENT_SIGNING_SECRET takes.
Secrets == {DEFAULT_SECRET, "rotated-secret"}

\* A dict is the sequence of its (key, value) items in insertion order, the
\* keys distinct.  Python orders the string keys lexicographically:
KeyRank ==
    [k \in {"checksum", "file_hash", "id", "issued_at",
            "normalization_strategy", "signature", "zk_commitment"} |->
        CASE k = "checksum" -> 1
          [] k = "file_hash" -> 2
          [] k = "id" -> 3
          [] k = "issued_at" -> 4
          [] k = "normalization_strategy" -> 5
          [] k = "signature" -> 6
          [] k = "zk_commitment" -> 7]

Range(seq) == {seq[i] : i \in 1..Len(seq)}

RECURSIVE SortSet(_)
SortSet(items) ==
    IF items = {} THEN <<>>
    ELSE LET first == CHOOSE it \in items :
                        \A other \in items : KeyRank[it[1]] <= KeyRank[other[1]]
         IN  <<first>> \o SortSet(items \ {first})

\* sorted(payload.items())
sorted_items(payload) == SortSet(Range(payload))

\* repr(...).encode("utf-8") of a list of tuples: an injective rendering
repr(items) == <<"repr", items>>

\* hmac.new(key, msg, hashlib.sha256).hexdigest()
HmacSha256Hex(key, msg) == <<"hmac", key, msg>>

\* _load_secret
load_secret == secret

sign_payload_unsorted(payload) ==
    HmacSha256Hex(load_secret, repr(payload))

\* sign_payload
sign_payload(payload) ==
    HmacSha256Hex(load_secret, repr(sorted_items(payload)))

\* verify_signature (hmac.compare_digest is equality of the two strings)
verify_signature(payload, signature) == sign_payload(payload) = signature

---------------------------------------------------------------------------
(* services/qr_payload.py *)

\* json.dumps(data, separators=(",", ":"), sort_keys=True).encode("utf-8")
json_dumps(data) == <<"json", sorted_items(data)>>

\* base64.urlsafe_b64encode(serialized).decode("utf-8")
urlsafe_b64encode(serialized) == <<"b64", serialized>>

\* encode_payload
encode_payload(data) == urlsafe_b64encode(json_dumps(data))

\* decode_payload: json.loads(base64.urlsafe_b64decode(encoded)), the dict
\* with its items in the order the JSON text lists them
decode_payload(encoded) == encoded[2][2]

\* The PNG of the QR code that carries the encoded string.
qr_png(encoded) == <<"png", encoded>>

\* generate_qr_png_base64: (base64_png, encoded)
generate_qr_png_base64(data) ==
    <<qr_png(encode_payload(data)), encode_payload(data)>>

\* dict.get(key) of a dict given as its item sequence (None when absent)
None == <<"None">>
EmptyStr == <<"str", "">>
DictGet(dict, key) ==
    IF \E i \in 1..Len(dict) : dict[i][1] = key
    THEN dict[CHOOSE i \in 1..Len(dict) : dict[i][1] = key][2]
    ELSE None

---------------------------------------------------------------------------
(* main.py: the document store and build_verification_payload *)

NORMALIZATION_STRATEGY ==
    <<"str", "unicode_nfkc_lowercase_whitespace_collapse">>

\* isoformat_utc(dt)
isoformat_utc(now) == <<"ts", now>>

\* Python truthiness of an Optional[str]: "not value"
Falsy(value) == value = None \/ value = EmptyStr

\* hashlib.sha256(f"{id}:{zk_commitment}:{file_hash}").hexdigest()[:12].upper()
Checksum(id, zk_commitment, file_hash) ==
    <<"sha12", id, zk_commitment, file_hash>>

\* str.upper and re.sub(r"[^a-zA-Z0-9-]", "", s) on the model's characters
UpperChar(c) == IF c = "i" THEN "I" ELSE IF c = "x" THEN "X" ELSE c
Upper(str) == [i \in 1..Len(str) |-> UpperChar(str[i])]
RECURSIVE StripSpecial(_)
StripSpecial(str) ==
    IF str = <<>> THEN <<>>
    ELSE IF Head(str) = "!" THEN StripSpecial(Tail(str))
    ELSE <<Head(str)>> \o StripSpecial(Tail(str))

\* find_document's match of one record
IdMatches(doc, document_id) ==
    doc.id = document_id \/ Upper(doc.id) = Upper(StripSpecial(document_id))

\* find_document over the list load_documents returned: the index of the
\* first matching record, 0 for None
find_document(docs, document_id) ==
    IF \E i \in 1..Len(docs) : IdMatches(docs[i], document_id)
    THEN CHOOSE i \in 1..Len(docs) :
            /\ IdMatches(docs[i], document_id)
            /\ \A j \in 1..(i - 1) : ~IdMatches(docs[j], document_id)
    ELSE 0

\* The signable dict of build_verification_payload, in its insertion order.
Signable(id, file_hash, issued_at, strategy, zk_commitment, checksum) ==
    << <<"id", id>>, <<"file_hash", file_hash>>, <<"issued_at", issued_at>>,
       <<"normalization_strategy", strategy>>,
       <<"zk_commitment", zk_commitment>>, <<"checksum", checksum>> >>

NoPayload ==
    [id |-> <<>>, file_hash |-> None, issued_at |-> None,
     normalization_strategy |-> None, zk_commitment |-> None,
     checksum |-> None, signature |-> None, qr_payload |-> None,
     qr_png_base64 |-> None]

\* What the environment does to one handler call: nothing, or the QR
\* library raises in generate_qr_png_base64, or save_documents raises
\* IOError with the file as it was (open failed) or after open(..., "w")
\* truncated it (load_documents then reads [] through JSONDecodeError).
\* A call meets at most one fault.
Faults == {"none", "qr", "save_unchanged", "save_truncated"}

\* documents[idx].update(updated_fields)
UpdateRecord(doc, p) ==
    [doc EXCEPT !.normalization_strategy = p.normalization_strategy,
                !.timestamp = p.issued_at,
                !.checksum = p.checksum,
                !.signature = p.signature,
                !.qr_payload = p.qr_payload,
                !.qr_png_base64 = p.qr_png_base64]

\* The index the persist loop updates: the first record with this id.
PersistIndex(docs, id) ==
    IF \E i \in 1..Len(docs) : docs[i].id = id
    THEN CHOOSE i \in 1..Len(docs) :
            /\ docs[i].id = id
            /\ \A j \in 1..(i - 1) : docs[j].id # id
    ELSE 0

\* A persist step that does not look at what is stored.
PersistenceAlwaysNeeded(document, payload) == TRUE

\* A build that never persists.
PersistenceNeverNeeded(document, payload) == FALSE

\* any(document.get(key) != value for key, value in updated_fields.items())
PersistenceNeeded(document, payload) ==
    UpdateRecord(document, payload) # document

\* The persist loop over the list just loaded: the first record with the id
\* is updated and the list saved; no record with the id, nothing saved.
Persist(docs, payload) ==
    IF PersistIndex(docs, payload.id) = 0 THEN docs
    ELSE [docs EXCEPT ![PersistIndex(docs, payload.id)] =
            UpdateRecord(docs[PersistIndex(docs, payload.id)], payload)]

BuildSignatureKeepStored(document, signable) ==
    IF Falsy(document.signature) THEN sign_payload(signable)
    ELSE document.signature

\* The signature build_verification_payload settles on.
BuildSignature(document, signable) ==
    IF Falsy(document.signature)
       \/ ~verify_signature(signable, document.signature)
    THEN sign_payload(signable)
    ELSE document.signature

\* (qr_png_base64, qr_payload) build_verification_payload settles on.
BuildQr(document, signable, signature) ==
    IF Falsy(document.qr_payload) \/ Falsy(document.qr_png_base64)
    THEN generate_qr_png_base64(signable \o << <<"signature", signature>> >>)
    ELSE <<document.qr_png_base64, document.qr_payload>>

\* build_verification_payload(document) with the file holding docs, the
\* clock reading now and the environment's fault.  raised is "" when the
\* payload is returned; docs is the file afterwards.
build_verification_payload(document, docs, now, fault) ==
    IF Falsy(document.zk_commitment)
    THEN [raised |-> "ValueError", payload |-> NoPayload, docs |-> docs,
          wrote |-> FALSE, resigned |-> FALSE]
    ELSE
    LET issued_at == IF Falsy(document.timestamp) THEN isoformat_utc(now)
                     ELSE document.timestamp
        checksum == IF Falsy(document.checksum)
                    THEN Checksum(document.id, document.zk_commitment,
                                  document.file_hash)
                    ELSE document.checksum
        signable == Signable(document.id, document.file_hash, issued_at,
                             document.normalization_strategy,
                             document.zk_commitment, checksum)
        signature == BuildSignature(document, signable)
        qr == BuildQr(document, signable, signature)
        payload == [id |-> document.id, file_hash |-> document.file_hash,
                    issued_at |-> issued_at,
                    normalization_strategy |->
                        document.normalization_strategy,
                    zk_commitment |-> document.zk_commitment,
                    checksum |-> checksum, signature |-> signature,
                    qr_payload |-> qr[2], qr_png_base64 |-> qr[1]]
        persistence_needed == PersistenceNeeded(document, payload)
        idx == PersistIndex(docs, document.id)
        qr_needed == Falsy(document.qr_payload)
                       \/ Falsy(document.qr_png_base64)
    IN  IF qr_needed /\ fault = "qr"
        THEN [raised |-> "Exception", payload |-> NoPayload, docs |-> docs,
              wrote |-> FALSE, resigned |-> FALSE]
        ELSE IF ~persistence_needed \/ idx = 0
        THEN [raised |-> "", payload |-> payload, docs |-> docs,
              wrote |-> FALSE, resigned |-> signature # document.signature]
        ELSE IF fault \notin {"save_unchanged", "save_truncated"}
        THEN [raised |-> "", payload |-> payload,
              docs |-> Persist(docs, payload),
              wrote |-> TRUE, resigned |-> signature # document.signature]
        ELSE [raised |-> "IOError", payload |-> payload,
              docs |-> IF fault = "save_truncated" THEN <<>> ELSE docs,
              wrote |-> FALSE, resigned |-> signature # document.signature]

---------------------------------------------------------------------------
(* The value each part of the state has while another part is exercised. *)

\* A signature string that no sign_payload call produced.
GarbageSignature == <<"garbage">>

\* A record with no field set.
NoRecord ==
    [id |-> <<>>, file_hash |-> None, timestamp |-> None,
     normalization_strategy |-> None, normalized_text_hash |-> None,
     zk_commitment |-> None, checksum |-> None, signature |-> None,
     qr_payload |-> None, qr_png_base64 |-> None]

\* Server processes sharing uploads/metadata/documents.json.
Workers == {"w1", "w2"}

NoLocals == [document |-> NoRecord, payload |-> NoPayload, docs |-> <<>>]

ConcIdle ==
    /\ pc = [w \in Workers |-> "idle"]
    /\ loc = [w \in Workers |-> NoLocals]
    /\ started = 0
    /\ ingested = {}
    /\ written = <<>>

\* encode_payload and normalize_text have not been called.
CodecIdle ==
    [stage |-> "idle", payload |-> <<>>, reordered |-> <<>>,
     encoded |-> <<>>, encoded_reordered |-> <<>>, decoded |-> <<>>]
NormIdle == [stage |-> "idle", text |-> <<>>, once |-> <<>>, twice |-> <<>>]
PureIdle ==
    /\ codec = CodecIdle
    /\ norm = NormIdle

\* No handler has been called.
NoCall ==
    [op |-> "none", status |-> 0, doc_id |-> <<>>,
     built |-> FALSE, payload |-> NoPayload, wrote |-> FALSE,
     resigned |-> FALSE, save_failed |-> FALSE, store_changed |-> FALSE,
     no_commitment |-> FALSE, secret |-> ""]

\* The handler call before the latest made no build_verification_payload
\* call that returned a payload.
NoBuild ==
    [built |-> FALSE, payload |-> NoPayload, wrote |-> FALSE, secret |-> ""]

ZkIdle ==
    [mode |-> "idle", commitment |-> NonHexStr, document_id |-> <<>>,
     context |-> <<>>,
     proof |-> [rx |-> MissingKey, ry |-> MissingKey, s |-> MissingKey],
     d |-> 0, dp |-> 0, k |-> 0, result |-> "pending"]

SgIdle ==
    [stage |-> "idle", fields |-> <<>>, check |-> <<>>, key |-> "",
     signature |-> GarbageSignature, presented |-> "none", result |-> FALSE]

---------------------------------------------------------------------------
(* SpecZk: verify_schnorr_proof applied to inputs drawn in Init. *)

ZkIds == {<<"I", "1">>, <<"I", "2">>}
Contexts == {<<>>, <<"x">>}

\* Commitment strings: every derived commitment, its uncompressed form, and
\* malformed ones (non-hex, bad prefix, x not on the curve, bad length).
CommitmentInputs ==
    {commitment_from_hash(d) : d \in 0..(ORDER - 1)}
      \cup {HexStr(<<4, Gx, Gy>>), HexStr(<<4, Gx, Gy + 1>>), NonHexStr,
            HexStr(<<5, Gx>>), HexStr(<<2, 1>>), HexStr(<<2>>), HexStr(<<>>)}

FieldInputs ==
    {HexInt(v) : v \in (-1)..(TwoToWidth + MaxOverflow - 1)}
      \cup {NonHexStr, MissingKey}

ScalarInputs == {HexInt(v) : v \in (-1)..ORDER} \cup {NonHexStr}

Digests == 0..(TwoToWidth - 1)
Nonces == 1..(ORDER - 1)

ZkInit ==
    /\ secret = DEFAULT_SECRET
    /\ sg = SgIdle
    /\ documents = <<>>
    /\ last = NoCall
    /\ before = NoBuild
    /\ ConcIdle
    /\ PureIdle
    /\ shaIV \in 0..(TwoToWidth - 1)
    /\ \/ /\ shaIV = 0
          /\ zk \in [mode : {"arbitrary"},
                     commitment : CommitmentInputs,
                     document_id : {<<"I", "1">>},
                     context : Contexts,
                     proof : [rx : FieldInputs, ry : FieldInputs,
                              s : ScalarInputs],
                     d : {0}, dp : {0}, k : {0},
                     result : {"pending"}]
       \/ \E d \in Digests, dp \in Digests, k \in Nonces,
             id \in ZkIds, ctx \in {<<>>} :
            zk = [mode |-> "honest",
                  commitment |-> commitment_from_hash(d),
                  document_id |-> id, context |-> ctx,
                  proof |-> HonestProof(dp, k, commitment_from_hash(d),
                                        id, ctx),
                  d |-> d, dp |-> dp, k |-> k,
                  result |-> "pending"]
       \/ /\ shaIV = 0
          /\ \E d \in Digests : zk = [ZkIdle EXCEPT !.mode = "derive", !.d = d]

\* A caller passes any strings and any proof payload.
VerifyArbitrary ==
    /\ zk.mode = "arbitrary"
    /\ zk.result = "pending"
    /\ zk' = [zk EXCEPT !.result =
                verify_schnorr_proof(zk.commitment, zk.document_id,
                                     zk.proof, zk.context)]
    /\ UNCHANGED <<pureVars,
                   shaIV, secret, sg, documents, last, before, concVars>>

\* A prover that knows the digest dp submits its proof against the
\* commitment of the digest d.
VerifyHonest ==
    /\ zk.mode = "honest"
    /\ zk.result = "pending"
    /\ zk' = [zk EXCEPT !.result =
                verify_schnorr_proof(zk.commitment, zk.document_id,
                                     zk.proof, zk.context)]
    /\ UNCHANGED <<pureVars,
                   shaIV, secret, sg, documents, last, before, concVars>>

\* upload_file derives the commitment of the digest d.
CommitFromHash ==
    /\ zk.mode = "derive"
    /\ zk.result = "pending"
    /\ zk' = [zk EXCEPT !.commitment = commitment_from_hash(zk.d),
                        !.result = "derived"]
    /\ UNCHANGED <<pureVars,
                   shaIV, secret, sg, documents, last, before, concVars>>

\* A later call derives the commitment of the same digest again.
CommitFromHashAgain ==
    /\ zk.mode = "derive"
    /\ zk.result = "derived"
    /\ zk' = [zk EXCEPT !.result =
                IF commitment_from_hash(zk.d) = zk.commitment
                THEN "same" ELSE "differs"]
    /\ UNCHANGED <<pureVars,
                   shaIV, secret, sg, documents, last, before, concVars>>

ZkNext ==
    \/ VerifyArbitrary
    \/ VerifyHonest
    \/ CommitFromHash
    \/ CommitFromHashAgain

SpecZk == ZkInit /\ [][ZkNext]_vars

---------------------------------------------------------------------------
(* Claims about verify_schnorr_proof (SpecZk). *)

ZkDone == zk.result # "pending"

\* The proof payload or the commitment is malformed: a non-hex or missing
\* field, rx or ry negative or too wide for to_bytes, a pair (rx, ry) that
\* is not a point of the curve, a commitment that does not parse.
ZkMalformed ==
    \/ ~IsHex(zk.commitment)
    \/ from_string(zk.commitment[2]).inf
    \/ ~PayloadParses(zk.proof)
    \/ ToBytesOverflows(zk.proof.rx[2])
    \/ ToBytesOverflows(zk.proof.ry[2])
    \/ ~contains_point(zk.proof.rx[2], zk.proof.ry[2])

\* C1: verify_schnorr_proof never raises to its caller; it returns a
\* boolean for every input, and false for every malformed or off-curve one.
C1_NeverRaises ==
    (zk.mode = "arbitrary" /\ ZkDone) =>
        /\ zk.result \in {"True", "False"}
        /\ ZkMalformed => zk.result = "False"

\* C2: Schnorr completeness; the proof an honest prover builds from the
\* digest d itself is accepted against commitment_from_hash(d), for every
\* d, nonce, document id and context.
C2_Completeness ==
    (zk.mode = "honest" /\ zk.dp = zk.d /\ ZkDone) => zk.result = "True"

\* C3 as stated: a proof honestly built from any different digest d' # d
\* is rejected.
C3_WrongDigestRejected ==
    (zk.mode = "honest" /\ zk.dp # zk.d /\ ZkDone) => zk.result = "False"

\* The challenge of the run's proof and the scalar behind its commitment.
ZkChallenge ==
    challenge(zk.proof.rx[2], zk.proof.ry[2], zk.commitment,
              zk.document_id, zk.context)
ZkCommitScalar == IF zk.d % ORDER = 0 THEN 1 ELSE zk.d % ORDER

\* C3 (amended): a proof honestly built from d' # d is rejected whenever
\* the challenge e is non-zero, d' is not congruent modulo the order to the
\* commitment's scalar (d mod order, or 1 when that is 0) and s is
\* non-zero; with s non-zero it is accepted exactly when e = 0 or d' is
\* congruent to the commitment's scalar; with s = 0 the verifier checks
\* the proof with s = 1 and accepts exactly when k + e * scalar = 1.
C3_WrongDigestExact ==
    (zk.mode = "honest" /\ zk.dp # zk.d /\ ZkDone) =>
        LET e == ZkChallenge
            D == ZkCommitScalar
            s == zk.proof.s[2]
        IN  /\ zk.result \in {"True", "False"}
            /\ (e # 0 /\ zk.dp % ORDER # D /\ s # 0) => zk.result = "False"
            /\ s # 0 => (zk.result = "True" <=> (e = 0 \/ zk.dp % ORDER = D))
            /\ s = 0 => (zk.result = "True" <=> (zk.k + e * D) % ORDER = 1)

\* A wrong-digest proof with a non-zero challenge and non-zero s, rejected.
C3_Witness ==
    /\ zk.mode = "honest" /\ zk.dp # zk.d /\ ZkDone
    /\ ZkChallenge # 0
    /\ zk.dp % ORDER # ZkCommitScalar
    /\ zk.proof.s[2] # 0
    /\ zk.result = "False"

\* G + G + ... + G, n terms, by repeated addition.
RECURSIVE SumOfG(_)
SumOfG(n) == IF n = 0 THEN INFINITY ELSE PointAdd(SumOfG(n - 1), GENERATOR)

\* C11: commitment_from_hash(d) is deterministic and is the compressed
\* encoding of G * k with k = d mod order, or k = 1 when d mod order = 0;
\* it decodes to a point of the curve and is never the identity element.
C11_CommitmentIsValidPoint ==
    (zk.mode = "derive" /\ zk.result # "pending") =>
        LET k == IF zk.d % ORDER = 0 THEN 1 ELSE zk.d % ORDER
            P == SumOfG(k)
        IN  /\ ~P.inf
            /\ contains_point(P.x, P.y)
            /\ zk.commitment = HexStr(<<2 + (P.y % 2), P.x>>)
            /\ from_string(zk.commitment[2]) = P
            /\ zk.result # "differs"

\* The commitment of a non-zero digest that is a multiple of the order,
\* derived twice.
C11_Witness ==
    /\ zk.mode = "derive"
    /\ zk.d # 0 /\ zk.d % ORDER = 0
    /\ zk.result = "same"
    /\ zk.commitment = commitment_from_hash(1)

---------------------------------------------------------------------------
(* SpecSig: sign_payload, then verify_signature of a presented pair. *)

SgKeys == {"checksum", "file_hash", "id"}
SgValues == {"a", "b"}
\* Every dict over SgKeys, in every insertion order.
SgDicts ==
    UNION {{f \in [1..n -> SgKeys \X SgValues] :
              \A i, j \in 1..n : i # j => f[i][1] # f[j][1]} :
           n \in 0..Cardinality(SgKeys)}

SgInit ==
    /\ shaIV = 0
    /\ zk = ZkIdle
    /\ documents = <<>>
    /\ last = NoCall
    /\ before = NoBuild
    /\ ConcIdle
    /\ PureIdle
    /\ secret \in Secrets
    /\ \E f \in SgDicts, c \in SgDicts :
         sg = [SgIdle EXCEPT !.stage = "new", !.fields = f, !.check = c]

\* signature = sign_payload(fields)
SgSign ==
    /\ sg.stage = "new"
    /\ sg' = [sg EXCEPT !.stage = "signed", !.key = secret,
                        !.signature = sign_payload(sg.fields)]
    /\ UNCHANGED <<pureVars,
                   shaIV, zk, secret, documents, last, before, concVars>>

\* The environment variable changes between signing and verifying.
SgRotate ==
    /\ sg.stage = "signed"
    /\ \E new \in Secrets \ {secret} : secret' = new
    /\ UNCHANGED <<pureVars, shaIV, zk, sg, documents, last, before, concVars>>

\* verify_signature(check, presented): the signature as issued, or another
\* string in its place.
SgVerify ==
    /\ sg.stage = "signed"
    /\ \E presented \in {"issued", "garbage"} :
         sg' = [sg EXCEPT
                  !.stage = "verified",
                  !.presented = presented,
                  !.result = verify_signature(sg.check,
                                IF presented = "issued" THEN sg.signature
                                ELSE GarbageSignature)]
    /\ UNCHANGED <<pureVars,
                   shaIV, zk, secret, documents, last, before, concVars>>

SgNext == SgSign \/ SgRotate \/ SgVerify

SpecSig == SgInit /\ [][SgNext]_vars

---------------------------------------------------------------------------
(* Spec: one server process; every handler runs to completion (the      *)
(* handlers hold no await between reading and writing the store).        *)

Ids == {<<"I", "1">>, <<"I", "2">>}
\* Ids as requests spell them: exact, lower case with a stray character,
\* and an id no upload issues.
RequestIds == {<<"I", "1">>, <<"i", "!", "2">>, <<"I", "9">>}
FileHashes == {<<"str", "h1">>}
\* Digests of the uploaded documents' normalized text; None for empty text.
DocDigests == {3}
TextHashes == {None} \cup {<<"digest", d>> : d \in DocDigests}
Times == 1..MaxTime

\* The record upload_file appends: doc_metadata.dict() with the timestamp
\* as a string (the fields no claim reads are left out).
UploadRecord(id, file_hash, text_hash, now, fault) ==
    LET has == text_hash # None
        zk_commitment == IF has THEN commitment_from_hash(text_hash[2])
                         ELSE None
        checksum == IF has THEN Checksum(id, zk_commitment, file_hash)
                    ELSE None
        verification_payload ==
            Signable(id, file_hash, isoformat_utc(now),
                     NORMALIZATION_STRATEGY, zk_commitment, checksum)
        signature == IF has THEN sign_payload(verification_payload) ELSE None
        qr == IF has /\ fault # "qr"
              THEN generate_qr_png_base64(
                     verification_payload \o << <<"signature", signature>> >>)
              ELSE <<None, None>>
    IN  [id |-> id, file_hash |-> file_hash,
         timestamp |-> isoformat_utc(now),
         normalization_strategy |-> NORMALIZATION_STRATEGY,
         normalized_text_hash |-> text_hash,
         zk_commitment |-> zk_commitment, checksum |-> checksum,
         signature |-> signature, qr_payload |-> qr[2],
         qr_png_base64 |-> qr[1]]

\* documents = load_documents(); documents.append(doc_dict);
\* save_documents(documents), the exception swallowed
AppendAndSave(docs, doc, fault) ==
    CASE fault = "save_unchanged" -> docs
      [] fault = "save_truncated" -> <<>>
      [] OTHER -> Append(docs, doc)

Init ==
    /\ shaIV = 0
    /\ zk = ZkIdle
    /\ sg = SgIdle
    /\ secret \in Secrets
    /\ documents = <<>>
    /\ last = NoCall
    /\ before = NoBuild
    /\ ConcIdle
    /\ PureIdle

\* What the next handler call records of the latest one: the payload its
\* build_verification_payload call returned, if any.
Earlier ==
    IF last.built
    THEN [built |-> TRUE, payload |-> last.payload, wrote |-> last.wrote,
          secret |-> last.secret]
    ELSE NoBuild

\* POST /upload
upload_file ==
    /\ Len(documents) < MaxDocs
    /\ \E id \in Ids, file_hash \in FileHashes, text_hash \in TextHashes,
          now \in Times, fault \in Faults :
         \E docs \in {AppendAndSave(documents,
                         UploadRecord(id, file_hash, text_hash, now, fault),
                         fault)} :
             /\ documents' = docs
             /\ last' = [NoCall EXCEPT !.op = "upload", !.status = 200,
                                       !.doc_id = id,
                                       !.store_changed = (docs # documents),
                                       !.secret = secret]
    /\ before' = Earlier
    /\ UNCHANGED <<pureVars, shaIV, zk, sg, secret, concVars>>

\* The response of a handler that called build_verification_payload.
BuildResponse(op, document, b, status) ==
    [op |-> op, status |-> status, doc_id |-> document.id,
     built |-> (b.raised = ""),
     payload |-> IF b.raised = "" THEN b.payload ELSE NoPayload,
     wrote |-> b.wrote, resigned |-> b.resigned,
     save_failed |-> (b.raised = "IOError"),
     store_changed |-> (b.docs # documents),
     no_commitment |-> Falsy(document.zk_commitment), secret |-> secret]

NotFound(op) ==
    [NoCall EXCEPT !.op = op, !.status = 404, !.secret = secret]

\* GET /document/{document_id}/verification
get_document_verification ==
    /\ \E request_id \in RequestIds, now \in Times, fault \in Faults :
         \E idx \in {find_document(documents, request_id)} :
             IF idx = 0
             THEN /\ last' = NotFound("verification")
                  /\ UNCHANGED documents
             ELSE \E b \in {build_verification_payload(
                               documents[idx], documents, now, fault)} :
                  /\ documents' = b.docs
                  /\ last' = BuildResponse("verification", documents[idx], b,
                               CASE b.raised = "" -> 200
                                 [] b.raised = "ValueError" -> 422
                                 [] OTHER -> 500)
    /\ before' = Earlier
    /\ UNCHANGED <<pureVars, shaIV, zk, sg, secret, concVars>>

\* Proof payloads a client submits for a document: the honest proof for a
\* digest (the document's or another), and malformed ones.
ProofInputs(zk_commitment, id, context) ==
    {HonestProof(d, 1, zk_commitment, id, context) : d \in DocDigests \cup {4}}
      \cup {[rx |-> HexInt(-1), ry |-> HexInt(Gy), s |-> HexInt(1)]}

\* POST /document/{document_id}/zk-verify
verify_document_proof ==
    /\ \E request_id \in RequestIds, now \in Times, fault \in Faults,
          context \in {<<>>} :
         \E idx \in {find_document(documents, request_id)} :
             IF idx = 0
             THEN /\ last' = NotFound("zk-verify")
                  /\ UNCHANGED documents
             ELSE \E b \in {build_verification_payload(
                               documents[idx], documents, now, fault)} :
             IF b.raised # ""
             THEN /\ documents' = b.docs
                  /\ last' = BuildResponse("zk-verify", documents[idx], b,
                                           500)
             ELSE /\ documents' = b.docs
                  /\ \E proof \in ProofInputs(b.payload.zk_commitment,
                                             b.payload.id, context) :
                       LET is_valid == verify_schnorr_proof(
                                         b.payload.zk_commitment,
                                         b.payload.id, proof, context)
                       IN  last' = BuildResponse("zk-verify", documents[idx],
                                     b,
                                     CASE is_valid = "True" -> 200
                                       [] is_valid = "False" -> 400
                                       [] OTHER -> 500)
    /\ before' = Earlier
    /\ UNCHANGED <<pureVars, shaIV, zk, sg, secret, concVars>>

\* DOCUMENT_SIGNING_SECRET is given another value.
rotate_secret ==
    /\ \E new \in Secrets \ {secret} : secret' = new
    /\ UNCHANGED <<pureVars, shaIV, zk, sg, documents, last, before, concVars>>

Next ==
    \/ upload_file
    \/ get_document_verification
    \/ verify_document_proof
    \/ rotate_secret

Spec == Init /\ [][Next]_vars

---------------------------------------------------------------------------
(* Claims about the handlers and build_verification_payload (Spec). *)

\* The latest call built a payload for the document the call before it
\* built one for.
SecondBuild ==
    /\ last.built
    /\ before.built
    /\ before.payload.id = last.payload.id

\* The stored record of the latest call's document.
StoredOfLast == documents[PersistIndex(documents, last.doc_id)]

\* C4: for a stored document without a zk_commitment both handlers that
\* build the payload end in the same typed validation failure (422, not
\* the 404 of not-found nor the generic 500), the store left unchanged.
C4_SameValidationFailure ==
    (last.op \in {"verification", "zk-verify"} /\ last.no_commitment) =>
        /\ last.status = 422
        /\ ~last.store_changed

\* C5: under a fixed secret, a build_verification_payload call that
\* follows a successful call on the same document returns a payload equal
\* to the first in every field and writes nothing to the store.
C5_Idempotent ==
    (SecondBuild /\ before.secret = last.secret) =>
        /\ last.payload = before.payload
        /\ ~last.wrote
        /\ ~last.store_changed

\* A second build after a first one that had to heal and persist the record.
C5_Witness ==
    /\ SecondBuild /\ before.secret = last.secret
    /\ before.wrote
    /\ last.payload = before.payload

\* C6: when the secret changed between two builds of the same document,
\* the second finds the stored signature invalid, returns and persists a
\* signature different from the first call's, and that signature verifies
\* under the new secret.
C6_RotationSelfHeal ==
    (SecondBuild /\ before.secret # last.secret /\ last.secret = secret) =>
        /\ last.resigned
        /\ last.payload.signature # before.payload.signature
        /\ last.wrote
        /\ StoredOfLast.signature = last.payload.signature
        /\ verify_signature(
             Signable(last.payload.id, last.payload.file_hash,
                      last.payload.issued_at,
                      last.payload.normalization_strategy,
                      last.payload.zk_commitment, last.payload.checksum),
             last.payload.signature)

\* Two builds of one document with a rotation between them.
C6_Witness ==
    /\ SecondBuild /\ before.secret # last.secret /\ last.secret = secret
    /\ last.resigned
    /\ before.payload.signature # None

\* C7: whenever build_verification_payload recomputes the signature it
\* regenerates the encoded payload, so the returned qr_payload decodes to
\* the returned signature and is the encoding of the signed fields plus it.
C7_QrCarriesSignature ==
    last.built =>
        /\ DictGet(decode_payload(last.payload.qr_payload), "signature")
             = last.payload.signature
        /\ last.payload.qr_payload =
             encode_payload(
               Signable(last.payload.id, last.payload.file_hash,
                        last.payload.issued_at,
                        last.payload.normalization_strategy,
                        last.payload.zk_commitment, last.payload.checksum)
                 \o << <<"signature", last.payload.signature>> >>)

\* C8: a failing store write in the persist step never turns the build
\* into a failed call; the caller still receives the computed payload.
C8_StorageFaultKeepsPayload ==
    (last.op = "verification" /\ last.save_failed) =>
        /\ last.status = 200
        /\ last.built

---------------------------------------------------------------------------
(* SpecConc: several server processes on the one metadata file.  A step  *)
(* is one access to the file (load_documents or save_documents) with the *)
(* computation around it; the code takes no lock and writes the whole    *)
(* list.                                                                 *)

ConcInit ==
    /\ shaIV = 0
    /\ zk = ZkIdle
    /\ sg = SgIdle
    /\ secret = DEFAULT_SECRET
    /\ documents = <<>>
    /\ last = NoCall
    /\ before = NoBuild
    /\ ConcIdle
    /\ PureIdle

\* Ids some upload_file call has drawn.
IssuedIds ==
    ingested \cup {loc[w].document.id : w \in {v \in Workers : pc[v] = "u_save"}}

\* upload_file up to documents = load_documents()
c_upload_load(w) ==
    /\ pc[w] = "idle"
    /\ started < MaxRequests
    /\ \E id \in Ids \ IssuedIds, file_hash \in FileHashes,
          text_hash \in TextHashes \ {None}, now \in Times,
          fault \in {"none", "qr"} :
         loc' = [loc EXCEPT ![w] =
                   [document |-> UploadRecord(id, file_hash, text_hash, now,
                                              fault),
                    payload |-> NoPayload, docs |-> documents]]
    /\ pc' = [pc EXCEPT ![w] = "u_save"]
    /\ started' = started + 1
    /\ UNCHANGED <<pureVars,
                   shaIV, zk, sg, secret, documents, last, before, ingested,
                   written>>

\* documents.append(doc_dict); save_documents(documents); the response
c_upload_save(w) ==
    /\ pc[w] = "u_save"
    /\ documents' = Append(loc[w].docs, loc[w].document)
    /\ ingested' = ingested \cup {loc[w].document.id}
    /\ pc' = [pc EXCEPT ![w] = "idle"]
    /\ loc' = [loc EXCEPT ![w] = NoLocals]
    /\ UNCHANGED <<pureVars,
                   shaIV, zk, sg, secret, last, before, started, written>>

\* A verification request up to the persist step: find_document (its own
\* load_documents) and the payload; the call ends here when nothing is to
\* be persisted.
c_build_find(w) ==
    /\ pc[w] = "idle"
    /\ started < MaxRequests
    /\ \E request_id \in Ids, now \in Times :
         \E idx \in {find_document(documents, request_id)} :
           /\ idx # 0
           /\ \E b \in {build_verification_payload(documents[idx], documents,
                                                   now, "none")} :
                IF b.raised = ""
                   /\ PersistenceNeeded(documents[idx], b.payload)
                THEN /\ loc' = [loc EXCEPT ![w] =
                                  [document |-> documents[idx],
                                   payload |-> b.payload, docs |-> <<>>]]
                     /\ pc' = [pc EXCEPT ![w] = "b_load"]
                ELSE UNCHANGED <<loc, pc>>
    /\ started' = started + 1
    /\ UNCHANGED <<pureVars,
                   shaIV, zk, sg, secret, documents, last, before, ingested,
                   written>>

\* documents = load_documents() of the persist step
c_build_load(w) ==
    /\ pc[w] = "b_load"
    /\ loc' = [loc EXCEPT ![w].docs = documents]
    /\ pc' = [pc EXCEPT ![w] = "b_save"]
    /\ UNCHANGED <<pureVars,
                   shaIV, zk, sg, secret, documents, last, before, started,
                   ingested, written>>

\* documents[idx].update(updated_fields); save_documents(documents); return
c_build_save(w) ==
    /\ pc[w] = "b_save"
    /\ documents' = IF PersistIndex(loc[w].docs, loc[w].payload.id) = 0
                    THEN documents
                    ELSE Persist(loc[w].docs, loc[w].payload)
    /\ written' = IF PersistIndex(loc[w].docs, loc[w].payload.id) = 0
                  THEN written
                  ELSE (loc[w].payload.id :> loc[w].payload) @@ written
    /\ pc' = [pc EXCEPT ![w] = "idle"]
    /\ loc' = [loc EXCEPT ![w] = NoLocals]
    /\ UNCHANGED <<pureVars,
                   shaIV, zk, sg, secret, last, before, started, ingested>>

ConcNext ==
    \E w \in Workers :
        \/ c_upload_load(w)
        \/ c_upload_save(w)
        \/ c_build_find(w)
        \/ c_build_load(w)
        \/ c_build_save(w)

SpecConc == ConcInit /\ [][ConcNext]_vars

AllCallsCompleted == \A w \in Workers : pc[w] = "idle"

\* C9: no lost updates under concurrency; once all calls have completed,
\* every ingested document is still in the store and no field written by a
\* completed build_verification_payload call has gone back to an older
\* value.
C9_NoLostUpdates ==
    AllCallsCompleted =>
        /\ \A id \in ingested :
             \E i \in 1..Len(documents) : documents[i].id = id
        /\ \A id \in DOMAIN written :
             \A i \in 1..Len(documents) :
                documents[i].id = id =>
                    ~PersistenceNeeded(documents[i], written[id])

---------------------------------------------------------------------------
(* services/qr_payload.py at the level of characters and bytes.  A str   *)
(* is a sequence of characters, each a one-character string; "eacute"     *)
(* stands for the character U+00E9.  A dict is the sequence of its items  *)
(* in insertion order and a value is None or <<"str", characters>>.       *)
(* encode_payload and decode_payload above are the same two functions     *)
(* with the text left symbolic.                                           *)

\* ord(): the code points of the characters that occur.
CharTable ==
    << <<"{", 123>>, <<"}", 125>>, <<"\"", 34>>, <<":", 58>>, <<",", 44>>,
       <<"\\", 92>>, <<"-", 45>>, <<"0", 48>>, <<"1", 49>>, <<"2", 50>>,
       <<"3", 51>>, <<"4", 52>>, <<"5", 53>>, <<"6", 54>>, <<"7", 55>>,
       <<"8", 56>>, <<"9", 57>>, <<"a", 97>>, <<"b", 98>>, <<"c", 99>>,
       <<"d", 100>>, <<"e", 101>>, <<"f", 102>>, <<"g", 103>>,
       <<"i", 105>>, <<"l", 108>>, <<"n", 110>>, <<"r", 114>>,
       <<"s", 115>>, <<"t", 116>>, <<"u", 117>>, <<"eacute", 233>> >>

Ord(c) == CharTable[CHOOSE i \in DOMAIN CharTable : CharTable[i][1] = c][2]
Chr(n) == CharTable[CHOOSE i \in DOMAIN CharTable : CharTable[i][2] = n][1]

HexDigits ==
    <<"0", "1", "2", "3", "4", "5", "6", "7", "8", "9",
      "a", "b", "c", "d", "e", "f">>
HexDigitValue(c) == (CHOOSE i \in DOMAIN HexDigits : HexDigits[i] = c) - 1

\* '\\u{0:04x}'.format(n)
UnicodeEscape(n) ==
    <<"\\", "u", HexDigits[((n \div 4096) % 16) + 1],
      HexDigits[((n \div 256) % 16) + 1], HexDigits[((n \div 16) % 16) + 1],
      HexDigits[(n % 16) + 1]>>

\* json.dumps of one character of a str (ensure_ascii is left True)
EscapeChar(c) ==
    IF c = "\"" THEN <<"\\", "\"">>
    ELSE IF c = "\\" THEN <<"\\", "\\">>
    ELSE IF Ord(c) > 126 THEN UnicodeEscape(Ord(c))
    ELSE <<c>>

RECURSIVE EscapeAll(_)
EscapeAll(str) ==
    IF str = <<>> THEN <<>> ELSE EscapeChar(Head(str)) \o EscapeAll(Tail(str))

\* json.dumps of a str and of a value
JsonString(str) == <<"\"">> \o EscapeAll(str) \o <<"\"">>
JsonValue(v) ==
    IF v = None THEN <<"n", "u", "l", "l">> ELSE JsonString(v[2])

\* a < b for two str keys (code point order, a proper prefix first)
RECURSIVE StrLess(_, _)
StrLess(a, b) ==
    IF b = <<>> THEN FALSE
    ELSE IF a = <<>> THEN TRUE
    ELSE IF Ord(Head(a)) # Ord(Head(b)) THEN Ord(Head(a)) < Ord(Head(b))
    ELSE StrLess(Tail(a), Tail(b))

\* sort_keys=True: the items by ascending key
RECURSIVE SortByKey(_)
SortByKey(items) ==
    IF items = {} THEN <<>>
    ELSE LET first == CHOOSE it \in items :
                        \A other \in items \ {it} : StrLess(it[1], other[1])
         IN  <<first>> \o SortByKey(items \ {first})

RECURSIVE JsonMembers(_)
JsonMembers(items) ==
    IF items = <<>> THEN <<>>
    ELSE JsonString(Head(items)[1]) \o <<":">> \o JsonValue(Head(items)[2])
           \o (IF Len(items) > 1 THEN <<",">> ELSE <<>>)
           \o JsonMembers(Tail(items))

\* json.dumps(data, separators=(",", ":")) without sort_keys
json_dumps_insertion_order(data) == <<"{">> \o JsonMembers(data) \o <<"}">>

\* json.dumps(data, separators=(",", ":"), sort_keys=True)
json_dumps_text(data) ==
    <<"{">> \o JsonMembers(SortByKey(Range(data))) \o <<"}">>

\* str.encode("utf-8") of the JSON text, which is ASCII
EncodeAscii(text) == [i \in 1..Len(text) |-> Ord(text[i])]
\* bytes.decode("utf-8")
DecodeAscii(bytes) == [i \in 1..Len(bytes) |-> Chr(bytes[i])]

\* The URL-safe base64 alphabet.
B64Alphabet ==
    <<"A", "B", "C", "D", "E", "F", "G", "H", "I", "J", "K", "L", "M",
      "N", "O", "P", "Q", "R", "S", "T", "U", "V", "W", "X", "Y", "Z",
      "a", "b", "c", "d", "e", "f", "g", "h", "i", "j", "k", "l", "m",
      "n", "o", "p", "q", "r", "s", "t", "u", "v", "w", "x", "y", "z",
      "0", "1", "2", "3", "4", "5", "6", "7", "8", "9", "-", "_">>
B64Char(sextet) == B64Alphabet[sextet + 1]
B64Value(c) == (CHOOSE i \in DOMAIN B64Alphabet : B64Alphabet[i] = c) - 1

\* base64.urlsafe_b64encode(serialized).decode("utf-8"): three bytes give
\* four characters, a last group of one or two bytes is padded with "=".
RECURSIVE urlsafe_b64encode_bytes(_)
urlsafe_b64encode_bytes(bytes) ==
    IF bytes = <<>> THEN <<>>
    ELSE IF Len(bytes) = 1
    THEN LET n == bytes[1] * 16
         IN  <<B64Char(n \div 64), B64Char(n % 64), "=", "=">>
    ELSE IF Len(bytes) = 2
    THEN LET n == (bytes[1] * 256 + bytes[2]) * 4
         IN  <<B64Char(n \div 4096), B64Char((n \div 64) % 64),
               B64Char(n % 64), "=">>
    ELSE LET n == bytes[1] * 65536 + bytes[2] * 256 + bytes[3]
         IN  <<B64Char(n \div 262144), B64Char((n \div 4096) % 64),
               B64Char((n \div 64) % 64), B64Char(n % 64)>>
               \o urlsafe_b64encode_bytes(SubSeq(bytes, 4, Len(bytes)))

\* base64.urlsafe_b64decode(encoded.encode("utf-8")) of a padded string
RECURSIVE urlsafe_b64decode_bytes(_)
urlsafe_b64decode_bytes(chars) ==
    IF chars = <<>> THEN <<>>
    ELSE IF chars[3] = "="
    THEN <<(B64Value(chars[1]) * 64 + B64Value(chars[2])) \div 16>>
    ELSE IF chars[4] = "="
    THEN LET n == (B64Value(chars[1]) * 4096 + B64Value(chars[2]) * 64
                     + B64Value(chars[3])) \div 4
         IN  <<n \div 256, n % 256>>
    ELSE LET n == B64Value(chars[1]) * 262144 + B64Value(chars[2]) * 4096
                    + B64Value(chars[3]) * 64 + B64Value(chars[4])
         IN  <<n \div 65536, (n \div 256) % 256, n % 256>>
               \o urlsafe_b64decode_bytes(SubSeq(chars, 5, Len(chars)))

\* json.loads of a JSON string whose opening quote is before position i:
\* the characters up to the closing quote and the position after it.
RECURSIVE ParseString(_, _, _)
ParseString(text, i, acc) ==
    IF text[i] = "\"" THEN [val |-> acc, pos |-> i + 1]
    ELSE IF text[i] = "\\"
    THEN IF text[i + 1] = "u"
         THEN ParseString(text, i + 6,
                Append(acc, Chr(HexDigitValue(text[i + 2]) * 4096
                                  + HexDigitValue(text[i + 3]) * 256
                                  + HexDigitValue(text[i + 4]) * 16
                                  + HexDigitValue(text[i + 5]))))
         ELSE ParseString(text, i + 2, Append(acc, text[i + 1]))
    ELSE ParseString(text, i + 1, Append(acc, text[i]))

\* json.loads of the value at position i: null or a string
ParseValue(text, i) ==
    IF text[i] = "n" THEN [val |-> None, pos |-> i + 4]
    ELSE LET r == ParseString(text, i + 1, <<>>)
         IN  [val |-> <<"str", r.val>>, pos |-> r.pos]

\* json.loads of the members of an object from position i on
RECURSIVE ParseMembers(_, _, _)
ParseMembers(text, i, acc) ==
    LET key == ParseString(text, i + 1, <<>>)
        value == ParseValue(text, key.pos + 1)
        items == Append(acc, <<key.val, value.val>>)
    IN  IF text[value.pos] = ","
        THEN ParseMembers(text, value.pos + 1, items)
        ELSE items

\* json.loads(text) of an object: the dict in the order of the text
json_loads_text(text) ==
    IF text[2] = "}" THEN <<>> ELSE ParseMembers(text, 2, <<>>)

\* encode_payload
encode_payload_text(data) ==
    urlsafe_b64encode_bytes(EncodeAscii(json_dumps_text(data)))

\* decode_payload
decode_payload_text(encoded) ==
    json_loads_text(DecodeAscii(urlsafe_b64decode_bytes(encoded)))

---------------------------------------------------------------------------
(* SpecCodec: encode_payload, decode_payload of the result, and           *)
(* encode_payload of the same fields inserted in another order.           *)

CodecKeys ==
    {<<"i", "d">>, <<"s", "i", "g", "n", "a", "t", "u", "r", "e">>}
\* Characters of the values: plain, the two json.dumps escapes with a
\* backslash, and one outside ASCII.
ValueChars == {"a", "\"", "\\", "eacute"}
CodecValues ==
    {None} \cup {<<"str", str>> :
                    str \in UNION {[1..n -> ValueChars] : n \in 0..MaxStrLen}}
\* Every dict over CodecKeys, in every insertion order.
CodecDicts ==
    UNION {{f \in [1..n -> CodecKeys \X CodecValues] :
              \A i, j \in 1..n : i # j => f[i][1] # f[j][1]} :
           n \in 0..Cardinality(CodecKeys)}
\* The same items inserted in any order.
Reorderings(data) ==
    {q \in [1..Len(data) -> Range(data)] : Range(q) = Range(data)}

CodecInit ==
    /\ shaIV = 0
    /\ zk = ZkIdle
    /\ sg = SgIdle
    /\ secret = DEFAULT_SECRET
    /\ documents = <<>>
    /\ last = NoCall
    /\ before = NoBuild
    /\ ConcIdle
    /\ norm = NormIdle
    /\ \E data \in CodecDicts :
         codec = [CodecIdle EXCEPT !.stage = "input", !.payload = data]

\* encoded = encode_payload(data)
CodecEncode ==
    /\ codec.stage = "input"
    /\ codec' = [codec EXCEPT !.stage = "encoded",
                              !.encoded = encode_payload_text(codec.payload)]
    /\ UNCHANGED <<shaIV, zk, sg, secret, documents, last, before, concVars,
                   norm>>

\* decode_payload(encoded)
CodecDecode ==
    /\ codec.stage = "encoded"
    /\ codec' = [codec EXCEPT !.stage = "decoded",
                              !.decoded = decode_payload_text(codec.encoded)]
    /\ UNCHANGED <<shaIV, zk, sg, secret, documents, last, before, concVars,
                   norm>>

\* encode_payload of a dict with the same items inserted in another order
CodecEncodeReordered ==
    /\ codec.stage = "decoded"
    /\ \E q \in Reorderings(codec.payload) :
         codec' = [codec EXCEPT !.stage = "done", !.reordered = q,
                                !.encoded_reordered = encode_payload_text(q)]
    /\ UNCHANGED <<shaIV, zk, sg, secret, documents, last, before, concVars,
                   norm>>

CodecNext == CodecEncode \/ CodecDecode \/ CodecEncodeReordered

SpecCodec == CodecInit /\ [][CodecNext]_vars

\* Python's == on two dicts: the same keys with the same values.
DictEq(a, b) == Range(a) = Range(b)

\* C12: codec round trip; decode_payload(encode_payload(p)) = p for every
\* payload p, and encode_payload gives the same string for the same fields
\* inserted in a different order.
C12_CodecRoundTrip ==
    /\ codec.stage \in {"decoded", "done"} =>
          DictEq(codec.decoded, codec.payload)
    /\ codec.stage = "done" => codec.encoded_reordered = codec.encoded

\* Two fields inserted with the later key first, a value that needs both
\* kinds of escape, encoded in both orders and decoded.
C12_Witness ==
    /\ codec.stage = "done"
    /\ Len(codec.payload) = 2
    /\ codec.reordered # codec.payload
    /\ codec.decoded # codec.payload
    /\ DictEq(codec.decoded, codec.payload)
    /\ \E i \in 1..2 : codec.payload[i][2] = <<"str", <<"\"", "eacute">> >>
    /\ codec.encoded[Len(codec.encoded)] = "="

---------------------------------------------------------------------------
(* services/text_processing.py: normalize_text.  A text is a sequence of  *)
(* characters: "J" and "j", "caron" (U+030C, combining), "jcaron"          *)
(* (U+01F0, j with caron; Unicode has no capital J with caron), the space, *)
(* "nbsp" (U+00A0) and "newline".                                         *)

TextChars == {"J", "j", "caron", "jcaron", " ", "nbsp", "newline"}

\* The compatibility decomposition of one character.
Decompose(c) ==
    IF c = "nbsp" THEN <<" ">>
    ELSE IF c = "jcaron" THEN <<"j", "caron">>
    ELSE <<c>>

RECURSIVE DecomposeAll(_)
DecomposeAll(text) ==
    IF text = <<>> THEN <<>>
    ELSE Decompose(Head(text)) \o DecomposeAll(Tail(text))

\* Canonical composition: j followed by the caron composes, J does not.
RECURSIVE ComposeAll(_)
ComposeAll(text) ==
    IF text = <<>> THEN <<>>
    ELSE IF Len(text) >= 2 /\ text[1] = "j" /\ text[2] = "caron"
    THEN <<"jcaron">> \o ComposeAll(SubSeq(text, 3, Len(text)))
    ELSE <<Head(text)>> \o ComposeAll(Tail(text))

\* unicodedata.normalize("NFKC", raw_text)
NFKC(text) == ComposeAll(DecomposeAll(text))

\* str.lower
Lower(text) ==
    [i \in 1..Len(text) |-> IF text[i] = "J" THEN "j" ELSE text[i]]

\* \s and str.isspace
IsSpace(c) == c \in {" ", "nbsp", "newline"}

\* re.sub(r"\s+", " ", normalized, flags=re.MULTILINE)
RECURSIVE CollapseWhitespace(_)
CollapseWhitespace(text) ==
    IF text = <<>> THEN <<>>
    ELSE IF IsSpace(Head(text))
    THEN IF Len(text) >= 2 /\ IsSpace(text[2])
         THEN CollapseWhitespace(Tail(text))
         ELSE <<" ">> \o CollapseWhitespace(Tail(text))
    ELSE <<Head(text)>> \o CollapseWhitespace(Tail(text))

\* str.strip
RECURSIVE LStrip(_)
LStrip(text) ==
    IF text # <<>> /\ IsSpace(Head(text)) THEN LStrip(Tail(text)) ELSE text
RECURSIVE RStrip(_)
RStrip(text) ==
    IF text # <<>> /\ IsSpace(text[Len(text)])
    THEN RStrip(SubSeq(text, 1, Len(text) - 1)) ELSE text
Strip(text) == RStrip(LStrip(text))

\* normalize_text
normalize_text(raw_text) ==
    IF raw_text = <<>> THEN <<>>
    ELSE Strip(CollapseWhitespace(Lower(NFKC(raw_text))))

---------------------------------------------------------------------------
(* SpecNorm: normalize_text of a text, then of its own result. *)

Texts == UNION {[1..n -> TextChars] : n \in 1..MaxTextLen}

NormInit ==
    /\ shaIV = 0
    /\ zk = ZkIdle
    /\ sg = SgIdle
    /\ secret = DEFAULT_SECRET
    /\ documents = <<>>
    /\ last = NoCall
    /\ before = NoBuild
    /\ ConcIdle
    /\ codec = CodecIdle
    /\ \E t \in Texts : norm = [NormIdle EXCEPT !.stage = "input", !.text = t]

\* normalized_text = normalize_text(extracted_text)
Normalize ==
    /\ norm.stage = "input"
    /\ norm' = [norm EXCEPT !.stage = "once",
                            !.once = normalize_text(norm.text)]
    /\ UNCHANGED <<shaIV, zk, sg, secret, documents, last, before, concVars,
                   codec>>

\* normalize_text of the normalized text
NormalizeAgain ==
    /\ norm.stage = "once"
    /\ norm' = [norm EXCEPT !.stage = "twice",
                            !.twice = normalize_text(norm.once)]
    /\ UNCHANGED <<shaIV, zk, sg, secret, documents, last, before, concVars,
                   codec>>

NormNext == Normalize \/ NormalizeAgain

SpecNorm == NormInit /\ [][NormNext]_vars

\* C13: normalize_text is idempotent; for every non-empty text t,
\* normalize_text(normalize_text(t)) = normalize_text(t).
C13_NormalizeIdempotent ==
    norm.stage = "twice" => norm.twice = norm.once

---------------------------------------------------------------------------
(* SpecHeal: the handlers that call build_verification_payload, started   *)
(* on a documents.json that holds one record with a commitment and any    *)
(* of the derived fields missing, stale or invalid.  The file outlives    *)
(* the process and the code reads every derived field with a fallback.   *)

HealId == <<"I", "1">>
HealFileHash == <<"str", "h1">>
HealCommitment == commitment_from_hash(3)

StoredTimestamps == {None, isoformat_utc(1)}
\* No checksum, the fingerprint of the record, the fingerprint of another.
StoredChecksums ==
    {None, Checksum(HealId, HealCommitment, HealFileHash),
     Checksum(<<"I", "2">>, HealCommitment, HealFileHash)}
HealSignable(timestamp, checksum) ==
    Signable(HealId, HealFileHash, timestamp, NORMALIZATION_STRATEGY,
             HealCommitment, checksum)
\* No signature, one that never was valid, one made under either secret.
StoredSignatures(signable) ==
    {None, GarbageSignature}
      \cup {HmacSha256Hex(k, repr(sorted_items(signable))) : k \in Secrets}
\* (qr_png_base64, qr_payload): none, the image missing, the pair of the
\* stored signature, the pair of another signature.
StoredQrs(signable, signature) ==
    {<<None, None>>,
     <<None, encode_payload(signable \o << <<"signature", signature>> >>)>>,
     generate_qr_png_base64(signable \o << <<"signature", signature>> >>),
     generate_qr_png_base64(
        signable \o << <<"signature", GarbageSignature>> >>)}

HealRecord(timestamp, checksum, signature, qr) ==
    [id |-> HealId, file_hash |-> HealFileHash, timestamp |-> timestamp,
     normalization_strategy |-> NORMALIZATION_STRATEGY,
     normalized_text_hash |-> <<"digest", 3>>,
     zk_commitment |-> HealCommitment, checksum |-> checksum,
     signature |-> signature, qr_payload |-> qr[2],
     qr_png_base64 |-> qr[1]]

HealInit ==
    /\ shaIV = 0
    /\ zk = ZkIdle
    /\ sg = SgIdle
    /\ secret \in Secrets
    /\ last = NoCall
    /\ before = NoBuild
    /\ ConcIdle
    /\ PureIdle
    /\ \E timestamp \in StoredTimestamps, checksum \in StoredChecksums :
         \E signature \in StoredSignatures(HealSignable(timestamp, checksum)) :
           \E qr \in StoredQrs(HealSignable(timestamp, checksum), signature) :
             documents = <<HealRecord(timestamp, checksum, signature, qr)>>

HealNext ==
    \/ get_document_verification
    \/ verify_document_proof
    \/ rotate_secret

SpecHeal == HealInit /\ [][HealNext]_vars

\* C14: after a build_verification_payload call that returned a payload,
\* whatever the record held before, the stored record has checksum,
\* signature, qr_payload and QR image present and its signature verifies,
\* under the secret of the call, over the stored id, file_hash, timestamp,
\* normalization_strategy, zk_commitment and checksum.
C14_StoredRecordHealed ==
    (last.built /\ last.secret = secret) =>
        /\ ~Falsy(StoredOfLast.checksum)
        /\ ~Falsy(StoredOfLast.signature)
        /\ ~Falsy(StoredOfLast.qr_payload)
        /\ ~Falsy(StoredOfLast.qr_png_base64)
        /\ verify_signature(
             Signable(StoredOfLast.id, StoredOfLast.file_hash,
                      StoredOfLast.timestamp,
                      StoredOfLast.normalization_strategy,
                      StoredOfLast.zk_commitment, StoredOfLast.checksum),
             StoredOfLast.signature)

\* The first build on a record found without a valid signature: it signed
\* and wrote, and the record now holds what it returned.
C14_Witness ==
    /\ last.built /\ last.secret = secret
    /\ before = NoBuild
    /\ last.resigned /\ last.wrote
    /\ StoredOfLast.signature = last.payload.signature
    /\ StoredOfLast.qr_payload = last.payload.qr_payload
    /\ ~Falsy(StoredOfLast.qr_png_base64)

\* C15: every payload build_verification_payload returns carries the
\* checksum of its own id, zk_commitment and file_hash, whatever checksum
\* the record held before the call.
C15_ChecksumIsFingerprint ==
    last.built =>
        last.payload.checksum =
            Checksum(last.payload.id, last.payload.zk_commitment,
                     last.payload.file_hash)

---------------------------------------------------------------------------
(* Claims about the store as the handlers leave it (Spec). *)

\* What a step of a handler that calls build_verification_payload may do
\* to the list: keep every record in its place, and change at most the six
\* derived fields of a record with the payload's id, to the payload's
\* values.
FrameKept ==
    /\ Len(documents') = Len(documents)
    /\ \A i \in 1..Len(documents) :
         \/ documents'[i] = documents[i]
         \/ /\ i <= Len(documents')
            /\ last'.built
            /\ documents[i].id = last'.payload.id
            /\ documents'[i].id = documents[i].id
            /\ documents'[i].file_hash = documents[i].file_hash
            /\ documents'[i].normalized_text_hash
                 = documents[i].normalized_text_hash
            /\ documents'[i].zk_commitment = documents[i].zk_commitment
            /\ documents'[i].normalization_strategy
                 = last'.payload.normalization_strategy
            /\ documents'[i].timestamp = last'.payload.issued_at
            /\ documents'[i].checksum = last'.payload.checksum
            /\ documents'[i].signature = last'.payload.signature
            /\ documents'[i].qr_payload = last'.payload.qr_payload
            /\ documents'[i].qr_png_base64 = last'.payload.qr_png_base64

\* C16: frame of build_verification_payload; a call never adds or removes
\* a record, never changes a record other than the one with the requested
\* id, and in that record writes only normalization_strategy, timestamp,
\* checksum, signature, qr_payload and qr_png_base64, to the values of the
\* returned payload.
C16_BuildFrame ==
    [][last'.op \in {"verification", "zk-verify"} => FrameKept]_vars

\* C17: document ids are unique in the store; no two stored records share
\* an id, so find_document and the persist step reach the record that was
\* ingested under the id.
C17_UniqueIds ==
    \A i, j \in 1..Len(documents) :
        i # j => documents[i].id # documents[j].id

===========================================================================
